---- MODULE Spec2Model ----
(***************************************************************************)
(* Model of ezdxf's LAYER table entry (src/src/ezdxf/entities/layer.py):   *)
(* the color/visibility encoding, the flag bits, rename with its scan of   *)
(* the entity database, and the per-viewport override store.               *)
(***************************************************************************)
EXTENDS Integers, Sequences, FiniteSets, TLC

VARIABLES
    color,      \* Layer.dxf.color: sign is the on/off state, magnitude the ACI
    flags,      \* Layer.dxf.flags
    setm,       \* history: the magnitude given to the last set_color when it
                \* was in 1..255, else 0
    op,         \* history: the operation that produced this state
    lname,      \* dxf.name of every layer of doc.layers
    table,      \* doc.layers: table key |-> layer
    edb,        \* doc.entitydb: the sequence of its entities, in handle order
    pc,         \* position of the running Layer.rename call, "idle" when none
    rn,         \* the layer, old name and new name of the last rename call
    result,     \* how the last rename call ended
    pre,        \* history: lname, table and edb when the last rename was called
    hookLog,    \* history: the rename_frozen_layer calls of the last rename
    true_color, \* Layer.dxf.true_color: <<v>>, None when not set
    linetype,   \* Layer.dxf.linetype
    lineweight, \* Layer.dxf.lineweight
    xdata,      \* the layer's extended data: application id |-> tags
    overrides,  \* ViewportOverrides._overrides of the store in use
    xdict,      \* the overrides kept in the layer's extension dictionary
    ovh,        \* history: the handle given to the last store operation
    ovarg,      \* history: the value given to the last setter of the store
    ovres,      \* history: how the last store operation ended
    appids,     \* doc.appids: the application ids of the document
    larg,       \* history: the value given to the last property access
    lres,       \* history: how the last property access ended
    dxfversion, \* tagwriter.dxfversion of the export
    attribs,    \* the attributes of the layer that are set (dxf.hasattr)
    handles,    \* Layer.dxf.material_handle and plotstyle_handle: <<h>>, None
                \* when not set
    stream,     \* the tags the tagwriter has written, in order
    epc         \* position of Layer.export_entity, "idle" before the call

layerVars == <<color, flags, setm>>
renameVars == <<lname, table, edb, pc, rn, result, pre, hookLog>>
ovVars == <<true_color, linetype, lineweight, xdata, overrides, xdict, ovh,
            ovarg, ovres>>
xdVars == <<appids, larg, lres>>
exVars == <<dxfversion, attribs, handles, stream, epc>>
vars == <<color, flags, setm, op, lname, table, edb, pc, rn, result, pre,
          hookLog, true_color, linetype, lineweight, xdata, overrides, xdict,
          ovh, ovarg, ovres, appids, larg, lres, dxfversion, attribs, handles,
          stream, epc>>

(***************************************************************************)
(* Bounds of the model.                                                    *)
(***************************************************************************)
\* set_color is called with every integer in -MaxColorArg..MaxColorArg
MaxColorArg == 257
\* flags starts at any value in 0..MaxFlags (bit 8 included)
MaxFlags == 511
\* the entity database holds NumEntities entities
NumEntities == 3
\* fix_layer_lineweight is called with every integer in -MaxLwArg..MaxLwArg
MaxLwArg == 213

(***************************************************************************)
(* Program constants.                                                      *)
(***************************************************************************)
\* is_valid_layer_color_index: -256 < aci < 256
AciLimit == 256
\* fix_layer_color: the repaired color
DefaultAci == 7
FROZEN == 1
THAW == 254
LOCK == 4
UNLOCK == 251
LINEWEIGHT_BYLAYER == -1
LINEWEIGHT_BYBLOCK == -2
LINEWEIGHT_DEFAULT == -3

(***************************************************************************)
(* Python's integer operators.                                             *)
(***************************************************************************)
Abs(x) == IF x < 0 THEN -x ELSE x

RECURSIVE BitAnd(_, _)
\* a & b for b >= 0 (a of either sign: \div rounds down, as two's
\* complement does)
BitAnd(a, b) ==
    IF a = 0 \/ b = 0 THEN 0
    ELSE (a % 2) * (b % 2) + 2 * BitAnd(a \div 2, b \div 2)

RECURSIVE BitOr(_, _)
\* a | b for non-negative integers
BitOr(a, b) ==
    IF a = 0 THEN b
    ELSE IF b = 0 THEN a
    ELSE (IF a % 2 = 1 \/ b % 2 = 1 THEN 1 ELSE 0)
         + 2 * BitOr(a \div 2, b \div 2)

(***************************************************************************)
(* Validation library of the layer schema.                                 *)
(***************************************************************************)
is_valid_layer_color_index(aci) == (-AciLimit < aci /\ aci < AciLimit) /\ aci # 0

\* a fixer that lets every value through
fix_layer_color_raw(aci) == aci

fix_layer_color(aci) == IF is_valid_layer_color_index(aci) THEN aci ELSE DefaultAci

(***************************************************************************)
(* Color and visibility: the sign of dxf.color is the on/off state.        *)
(***************************************************************************)
is_off(c) == c < 0

is_on(c) == ~is_off(c)

\* a get_color that returns dxf.color as stored
get_color_signed(c) == c

get_color(c) == Abs(c)

on_color(c) == Abs(c)

off_color(c) == -Abs(c)

\* the value set_color(arg) stores when dxf.color is c
set_color_value(c, arg) == IF is_on(c) THEN Abs(arg) ELSE -Abs(arg)

On ==
    /\ color' = on_color(color)
    /\ op' = "on"
    /\ UNCHANGED <<flags, setm>>
    /\ UNCHANGED <<renameVars, ovVars, xdVars, exVars>>

Off ==
    /\ color' = off_color(color)
    /\ op' = "off"
    /\ UNCHANGED <<flags, setm>>
    /\ UNCHANGED <<renameVars, ovVars, xdVars, exVars>>

\* Layer.set_color(arg) for an arg of args
SetColorWith(args) ==
    \E arg \in args :
        /\ color' = set_color_value(color, arg)
        /\ setm' = IF Abs(arg) \in 1..(AciLimit - 1) THEN Abs(arg) ELSE 0
        /\ op' = "set_color"
        /\ lres' = "ok"
        /\ UNCHANGED <<flags, appids, larg>>
        /\ UNCHANGED <<renameVars, ovVars, exVars>>

SetColor == SetColorWith(-MaxColorArg..MaxColorArg)

(***************************************************************************)
(* Flag bits: bit 0 is frozen, bit 2 is locked.                            *)
(***************************************************************************)
is_frozen(f) == BitAnd(f, FROZEN) > 0

is_locked(f) == BitAnd(f, LOCK) > 0

freeze_flags(f) == BitOr(f, FROZEN)

thaw_flags(f) == BitAnd(f, THAW)

lock_flags(f) == BitOr(f, LOCK)

unlock_flags(f) == BitAnd(f, UNLOCK)

Freeze ==
    /\ flags' = freeze_flags(flags)
    /\ op' = "freeze"
    /\ UNCHANGED <<color, setm>>
    /\ UNCHANGED <<renameVars, ovVars, xdVars, exVars>>

Thaw ==
    /\ flags' = thaw_flags(flags)
    /\ op' = "thaw"
    /\ UNCHANGED <<color, setm>>
    /\ UNCHANGED <<renameVars, ovVars, xdVars, exVars>>

Lock ==
    /\ flags' = lock_flags(flags)
    /\ op' = "lock"
    /\ UNCHANGED <<color, setm>>
    /\ UNCHANGED <<renameVars, ovVars, xdVars, exVars>>

Unlock ==
    /\ flags' = unlock_flags(flags)
    /\ op' = "unlock"
    /\ UNCHANGED <<color, setm>>
    /\ UNCHANGED <<renameVars, ovVars, xdVars, exVars>>

(***************************************************************************)
(* Names: a string is the sequence of its characters.                      *)
(***************************************************************************)
NmA == <<"A">>
Nma == <<"a">>
NmB == <<"B">>
Nmb == <<"b">>
Nm0 == <<"0">>
NmDefpoints == <<"D", "e", "f", "p", "o", "i", "n", "t", "s">>
NmDEFPOINTS == <<"D", "E", "F", "P", "O", "I", "N", "T", "S">>
NmStar == <<"B", "*">>

\* str.lower() on one character
LowerChar(c) ==
    CASE c = "A" -> "a" [] c = "B" -> "b" [] c = "D" -> "d" [] c = "E" -> "e"
      [] c = "F" -> "f" [] c = "P" -> "p" [] c = "O" -> "o" [] c = "I" -> "i"
      [] c = "N" -> "n" [] c = "T" -> "t" [] c = "S" -> "s" [] c = "C" -> "c"
      [] c = "H" -> "h" [] OTHER -> c

\* str.lower()
Lower(s) == [i \in 1..Len(s) |-> LowerChar(s[i])]

\* the characters a table name must not contain (the backslash, the double
\* quote and the backtick of the code's set are left out: no name here
\* holds them)
INVALID_NAME_CHARACTERS ==
    {"<", ">", "/", ":", ";", "?", "*", "|", "="}

\* validator.is_valid_layer_name: no invalid character in the name
is_valid_layer_name(name) ==
    \A i \in 1..Len(name) : name[i] \notin INVALID_NAME_CHARACTERS

Nmdefpoints == <<"d", "e", "f", "p", "o", "i", "n", "t", "s">>

\* line 333: the names Layer.rename refuses to rename
ProtectedNames == {Nm0, Nmdefpoints}

\* the names rename is called with
NewNames == {Nma, NmB, Nm0, NmDEFPOINTS, NmStar}

\* an entity without a layer attribute reads the default layer "0"
Entity(type, has_layer, layer, frozen_layers) ==
    [type |-> type, has_layer |-> has_layer, layer |-> layer,
     frozen_layers |-> frozen_layers]

\* the entities the entity database is filled with
EntityChoices ==
    {Entity("LINE", FALSE, Nm0, <<>>)}
    \cup {Entity("LINE", TRUE, n, <<>>) : n \in {NmA, Nma, NmB}}
    \cup {Entity("VIEWPORT", FALSE, Nm0, <<>>),
          Entity("VIEWPORT", TRUE, Nma, <<Nma, NmB>>)}
    \cup {Entity("LAYER_FILTER", FALSE, Nm0, <<>>),
          Entity("LAYER_INDEX", FALSE, Nm0, <<>>)}

(***************************************************************************)
(* doc.layers: the layer table, keyed by the lower-case name.              *)
(***************************************************************************)
\* Table.key
key(name) == Lower(name)

\* Table.has_entry
has_entry(t, name) == key(name) \in DOMAIN t

\* Table.replace(name, entry): drop the entry stored under name, then store
\* entry under its own dxf.name; one call of the table
table_replace(t, name, entry, entry_name) ==
    LET kept == DOMAIN t \ {key(name)}
    IN [k \in kept \cup {key(entry_name)} |->
            IF k = key(entry_name) THEN entry ELSE t[k]]

\* the entries of the table that name resolves to
resolves(t, name, entry) == has_entry(t, name) /\ t[key(name)] = entry

(***************************************************************************)
(* Layer.rename and its scan of the entity database.                       *)
(***************************************************************************)
\* Viewport.rename_frozen_layer: the hook the scan calls on a VIEWPORT
rename_frozen_layer(e, old_name, new_name) ==
    [e EXCEPT !.frozen_layers =
        [i \in 1..Len(e.frozen_layers) |->
            IF key(e.frozen_layers[i]) # key(old_name)
            THEN e.frozen_layers[i] ELSE new_name]]

\* a loop body that compares the layer attribute with the old name itself
visit_entity_exact(st, i, old_name, new_name) ==
    LET e == st.edb[i]
        e1 == IF e.has_layer /\ e.layer = old_name
              THEN [e EXCEPT !.layer = new_name]
              ELSE e
    IN CASE e.type = "VIEWPORT" ->
              [edb |-> [st.edb EXCEPT
                            ![i] = rename_frozen_layer(e1, old_name, new_name)],
               log |-> Append(st.log,
                              [handle |-> i, old |-> old_name, new |-> new_name])]
         [] OTHER -> [st EXCEPT !.edb[i] = e1]

\* one pass of the loop body of _rename_layer_references over entity i;
\* st is the entity database and the log of the hook calls so far
visit_entity(st, i, old_name, new_name) ==
    LET e == st.edb[i]
        e1 == IF e.has_layer /\ key(e.layer) = key(old_name)
              THEN [e EXCEPT !.layer = new_name]
              ELSE e
    IN CASE e.type = "VIEWPORT" ->
              [edb |-> [st.edb EXCEPT
                            ![i] = rename_frozen_layer(e1, old_name, new_name)],
               log |-> Append(st.log,
                              [handle |-> i, old |-> old_name, new |-> new_name])]
         [] e.type = "LAYER_FILTER" -> [st EXCEPT !.edb[i] = e1]
         [] e.type = "LAYER_INDEX" -> [st EXCEPT !.edb[i] = e1]
         [] OTHER -> [st EXCEPT !.edb[i] = e1]

RECURSIVE scan_from(_, _, _, _)
\* the for loop of _rename_layer_references, from entity i on
scan_from(st, i, old_name, new_name) ==
    IF i > Len(st.edb) THEN st
    ELSE scan_from(visit_entity(st, i, old_name, new_name), i + 1,
                   old_name, new_name)

RECURSIVE scan_abort_from(_, _, _, _)
\* a loop that gives up at the first LAYER_FILTER or LAYER_INDEX
scan_abort_from(st, i, old_name, new_name) ==
    IF i > Len(st.edb) \/ st.edb[i].type \in {"LAYER_FILTER", "LAYER_INDEX"}
    THEN st
    ELSE scan_abort_from(visit_entity(st, i, old_name, new_name), i + 1,
                         old_name, new_name)

\* a scan that raises for the referencing types it does not support
rename_layer_references_abort(db, old_name, new_name) ==
    scan_abort_from([edb |-> db, log |-> <<>>], 1, old_name, new_name)

\* Layer._rename_layer_references
rename_layer_references(db, old_name, new_name) ==
    scan_from([edb |-> db, log |-> <<>>], 1, old_name, new_name)

\* a rename without the check of the protected names
rename_check_unprotected(l, name) ==
    IF ~is_valid_layer_name(name) THEN "invalid_name"
    ELSE IF has_entry(table, name) THEN "exists"
    ELSE "accepted"

\* lines 327-336: the checks of Layer.rename, in the order of the code
rename_check(l, name) ==
    IF ~is_valid_layer_name(name) THEN "invalid_name"
    ELSE IF Lower(lname[l]) \in ProtectedNames THEN "protected"
    ELSE IF has_entry(table, name) THEN "exists"
    ELSE "accepted"

\* Layer.rename(name) is called on layer l: the checks
RenameCall ==
    \E l \in DOMAIN lname, name \in NewNames :
        /\ pc = "idle"
        /\ rn' = [layer |-> l, old |-> lname[l], new |-> name]
        /\ pre' = [lname |-> lname, table |-> table, edb |-> edb]
        /\ hookLog' = <<>>
        /\ result' = rename_check(l, name)
        /\ pc' = IF rename_check(l, name) = "accepted" THEN "set_name" ELSE "idle"
        /\ op' = "rename"
        /\ UNCHANGED <<lname, table, edb>>
        /\ UNCHANGED <<layerVars, ovVars, xdVars, exVars>>

\* line 338: self.dxf.name = name
RenameSetName ==
    /\ pc = "set_name"
    /\ lname' = [lname EXCEPT ![rn.layer] = rn.new]
    /\ pc' = "replace"
    /\ UNCHANGED <<table, edb, rn, result, pre, hookLog, op>>
    /\ UNCHANGED <<layerVars, ovVars, xdVars, exVars>>

\* a key swap that hands the table the new name instead of the old one
RenameReplaceNew ==
    /\ pc = "replace"
    /\ table' = table_replace(table, rn.new, rn.layer, lname[rn.layer])
    /\ pc' = "refs"
    /\ UNCHANGED <<lname, edb, rn, result, pre, hookLog, op>>
    /\ UNCHANGED <<layerVars, ovVars, xdVars, exVars>>

\* line 339: layers.replace(old, self)
RenameReplace ==
    /\ pc = "replace"
    /\ table' = table_replace(table, rn.old, rn.layer, lname[rn.layer])
    /\ pc' = "refs"
    /\ UNCHANGED <<lname, edb, rn, result, pre, hookLog, op>>
    /\ UNCHANGED <<layerVars, ovVars, xdVars, exVars>>

\* line 340: self._rename_layer_references(old, name), and the return
RenameRefs ==
    /\ pc = "refs"
    /\ LET st == rename_layer_references(edb, rn.old, rn.new)
       IN /\ edb' = st.edb
          /\ hookLog' = st.log
    /\ result' = "ok"
    /\ pc' = "idle"
    /\ UNCHANGED <<lname, table, rn, pre, op>>
    /\ UNCHANGED <<layerVars, ovVars, xdVars, exVars>>

\* no rename was called yet
NoRename == [layer |-> "none", old |-> <<>>, new |-> <<>>]

\* the table of the layers named by names
TableOf(names) ==
    [k \in {key(names[l]) : l \in DOMAIN names} |->
        CHOOSE l \in DOMAIN names : key(names[l]) = k]

RenameIdle ==
    /\ pc = "idle"
    /\ rn = NoRename
    /\ result = "none"
    /\ pre = [lname |-> lname, table |-> table, edb |-> edb]
    /\ hookLog = <<>>

(***************************************************************************)
(* The layer settings the override store reads.                            *)
(***************************************************************************)
\* Python's None, where the other values are tuples
None == <<>>

\* a float x is held as the integer 510 * x: FloatOne is 1.0
FloatOne == 2 * 255

AcCmTransparency == "AcCmTransparency"

\* colors.int2rgb
int2rgb(v) == <<(v \div 65536) % 256, (v \div 256) % 256, v % 256>>

\* colors.transparency2float: 1.0 - (value & 0xFF) / 255.0
transparency2float(t) == FloatOne - 2 * BitAnd(t, 255)

\* Layer.color (property)
layer_color == get_color(color)

\* Layer.rgb (property)
layer_rgb == IF true_color = None THEN None ELSE int2rgb(true_color[1])

\* a transparency getter that does not look at the real-value bit
layer_transparency_unflagged ==
    IF AcCmTransparency \notin DOMAIN xdata THEN 0
    ELSE transparency2float(xdata[AcCmTransparency][1].value)

\* Layer.transparency (property): 0x2000000 marks a real transparency value
layer_transparency ==
    IF AcCmTransparency \notin DOMAIN xdata THEN 0
    ELSE LET t == xdata[AcCmTransparency][1].value
         IN IF BitAnd(t, 33554432) # 0 THEN transparency2float(t) ELSE 0

(***************************************************************************)
(* ViewportOverrides: the override store of layer L1.                      *)
(***************************************************************************)
\* the handles the store is asked about: entity 1 is a VIEWPORT, no entity
\* has the handle 2
VpHandles == {1, 2}

\* the handles the setters, freeze and thaw are called with
WriteHandles == {1}

NmContinuous == <<"C", "o", "n", "t", "i", "n", "u", "o", "u", "s">>
NmDASHED == <<"D", "A", "S", "H", "E", "D">>
NmDOTTED == <<"D", "O", "T", "T", "E", "D">>

\* doc.linetypes, keyed like every table
linetypes == {key(NmContinuous), key(NmDASHED)}

\* the arguments the setters of the store are called with
OvColorArgs == {-5, 0, 3, 256}
OvRgbArgs == {None, <<1, 2, 3>>, <<1, 2, 256>>}
OvTransparencyArgs == {-1, 255, FloatOne + 1}
OvLinetypeArgs == {NmDASHED, NmDOTTED}
OvLineweightArgs == {-1, 7, 25}

\* validator.is_valid_rgb
is_valid_rgb(v) == Len(v) = 3 /\ \A i \in 1..3 : v[i] \in 0..255

\* const.VALID_DXF_LINEWEIGHTS
VALID_DXF_LINEWEIGHTS ==
    {0, 5, 9, 13, 15, 18, 20, 25, 30, 35, 40, 50, 53, 60, 70, 80, 90, 100,
     106, 120, 140, 158, 200, 211}

\* validator.is_valid_lineweight
is_valid_lineweight(lw) ==
    lw \in VALID_DXF_LINEWEIGHTS \cup
           {LINEWEIGHT_DEFAULT, LINEWEIGHT_BYLAYER, LINEWEIGHT_BYBLOCK}

is_valid_layer_lineweight(lw) ==
    IF is_valid_lineweight(lw)
    THEN IF lw \notin {LINEWEIGHT_BYLAYER, LINEWEIGHT_BYBLOCK} THEN TRUE
         ELSE FALSE
    ELSE FALSE

\* a default_settings that copies dxf.color as stored, sign included
default_settings_signed(frozen) ==
    [aci |-> color, rgb |-> layer_rgb, transparency |-> layer_transparency,
     linetype |-> linetype, lineweight |-> lineweight, frozen |-> frozen]

\* ViewportOverrides.default_settings
default_settings(frozen) ==
    [aci |-> layer_color, rgb |-> layer_rgb,
     transparency |-> layer_transparency, linetype |-> linetype,
     lineweight |-> lineweight, frozen |-> frozen]

\* is_layer_frozen_in_vp: entitydb.get(vp_handle), then the name looked up
\* in the list vp.frozen_layers
is_layer_frozen_in_vp(vp_handle) ==
    IF vp_handle \in DOMAIN edb
    THEN \E i \in DOMAIN edb[vp_handle].frozen_layers :
             edb[vp_handle].frozen_layers[i] = lname.L1
    ELSE FALSE

\* a dict without entries
EmptyDict == <<>>

\* a load that hands out the dict of the store in use
load_layer_overrides_shared(xd) == overrides

\* load_layer_overrides: always a new, empty dict
load_layer_overrides(xd) == EmptyDict

\* store_layer_overrides: no statement, the extension dictionary stays
store_layer_overrides(xd, ov) == xd

\* ViewportOverrides.has_overrides(vp_handle)
has_overrides(ov, vp_handle) == vp_handle \in DOMAIN ov

\* ViewportOverrides._get_overrides
get_overrides(ov, vp_handle) ==
    IF vp_handle \in DOMAIN ov THEN ov[vp_handle]
    ELSE default_settings(is_layer_frozen_in_vp(vp_handle))

\* ViewportOverrides._acquire_overrides: dict.setdefault
acquire_overrides(ov, vp_handle) ==
    IF vp_handle \in DOMAIN ov THEN ov
    ELSE [h \in DOMAIN ov \cup {vp_handle} |->
            IF h = vp_handle
            THEN default_settings(is_layer_frozen_in_vp(vp_handle))
            ELSE ov[h]]

\* ViewportOverrides.get_color
ov_get_color(ov, vp_handle) == get_overrides(ov, vp_handle).aci

\* ViewportOverrides.is_frozen
ov_is_frozen(ov, vp_handle) == get_overrides(ov, vp_handle).frozen

\* a setter that acquires the entry before it looks at the argument
OvSetAcquireFirst(name, vp_handle, valid, field, value) ==
    /\ overrides' =
         IF valid
         THEN [acquire_overrides(overrides, vp_handle)
                  EXCEPT ![vp_handle][field] = value]
         ELSE acquire_overrides(overrides, vp_handle)
    /\ ovres' = IF valid THEN "ok" ELSE "ValueError"
    /\ ovh' = vp_handle
    /\ ovarg' = <<value>>
    /\ op' = name
    /\ UNCHANGED <<true_color, linetype, lineweight, xdata, xdict>>
    /\ UNCHANGED <<layerVars, renameVars, xdVars, exVars>>

\* a setter of the store: raise when the argument is not valid, else
\* acquire the entry and assign the field
OvSet(name, vp_handle, valid, field, value) ==
    /\ overrides' =
         IF valid
         THEN [acquire_overrides(overrides, vp_handle)
                  EXCEPT ![vp_handle][field] = value]
         ELSE overrides
    /\ ovres' = IF valid THEN "ok" ELSE "ValueError"
    /\ ovh' = vp_handle
    /\ ovarg' = <<value>>
    /\ op' = name
    /\ UNCHANGED <<true_color, linetype, lineweight, xdata, xdict>>
    /\ UNCHANGED <<layerVars, renameVars, xdVars, exVars>>

OvSetColor ==
    \E h \in WriteHandles, value \in OvColorArgs :
        OvSet("ov_set_color", h, is_valid_layer_color_index(value), "aci", value)

OvSetRgb ==
    \E h \in WriteHandles, value \in OvRgbArgs :
        OvSet("ov_set_rgb", h, value = None \/ is_valid_rgb(value), "rgb", value)

OvSetTransparency ==
    \E h \in WriteHandles, value \in OvTransparencyArgs :
        OvSet("ov_set_transparency", h, 0 <= value /\ value <= FloatOne,
              "transparency", value)

OvSetLinetype ==
    \E h \in WriteHandles, value \in OvLinetypeArgs :
        OvSet("ov_set_linetype", h, key(value) \in linetypes, "linetype", value)

OvSetLineweight ==
    \E h \in WriteHandles, value \in OvLineweightArgs :
        OvSet("ov_set_lineweight", h, is_valid_layer_lineweight(value),
              "lineweight", value)

OvFreeze ==
    \E h \in WriteHandles : OvSet("ov_freeze", h, TRUE, "frozen", TRUE)

OvThaw ==
    \E h \in WriteHandles : OvSet("ov_thaw", h, TRUE, "frozen", FALSE)

\* getters that acquire the entry they read
OvReadAcquire ==
    \E h \in VpHandles :
        /\ overrides' = acquire_overrides(overrides, h)
        /\ ovh' = h
        /\ ovarg' = None
        /\ ovres' = "ok"
        /\ op' = "ov_read"
        /\ UNCHANGED <<true_color, linetype, lineweight, xdata, xdict>>
        /\ UNCHANGED <<layerVars, renameVars, xdVars, exVars>>

\* the getters of the store (get_color, get_rgb, get_transparency,
\* get_linetype, get_lineweight, is_frozen): _get_overrides, then one field
OvRead ==
    \E h \in VpHandles :
        /\ ovh' = h
        /\ ovarg' = None
        /\ ovres' = "ok"
        /\ op' = "ov_read"
        /\ UNCHANGED <<true_color, linetype, lineweight, xdata, overrides, xdict>>
        /\ UNCHANGED <<layerVars, renameVars, xdVars, exVars>>

\* ViewportOverrides.commit
OvCommit ==
    /\ xdict' = store_layer_overrides(xdict, overrides)
    /\ ovres' = "ok"
    /\ op' = "ov_commit"
    /\ ovarg' = None
    /\ UNCHANGED <<true_color, linetype, lineweight, xdata, overrides, ovh>>
    /\ UNCHANGED <<layerVars, renameVars, xdVars, exVars>>

\* Layer.get_vp_overrides: a new store replaces the one in use
OvNew ==
    /\ overrides' = load_layer_overrides(xdict)
    /\ ovres' = "ok"
    /\ op' = "ov_new"
    /\ ovarg' = None
    /\ UNCHANGED <<true_color, linetype, lineweight, xdata, xdict, ovh>>
    /\ UNCHANGED <<layerVars, renameVars, xdVars, exVars>>

\* the frozen_layers list of VIEWPORT 1 is set by its owner
VpSetFrozen ==
    \E fl \in {<<>>, <<NmA>>, <<Nma, NmB>>} :
        /\ edb' = [edb EXCEPT ![1].frozen_layers = fl]
        /\ pre' = [pre EXCEPT !.edb = edb']
        /\ op' = "vp_set_frozen"
        /\ UNCHANGED <<lname, table, pc, rn, result, hookLog>>
        /\ UNCHANGED <<layerVars, ovVars, xdVars, exVars>>

\* the settings of a new layer
SettingsIdle ==
    /\ true_color = None
    /\ linetype = NmContinuous
    /\ lineweight = LINEWEIGHT_DEFAULT

\* the override store before any use
StoreIdle ==
    /\ xdict = EmptyDict
    /\ overrides = EmptyDict
    /\ ovh = 1
    /\ ovarg = None
    /\ ovres = "ok"

\* the override store and the layer settings it reads, before any use
OvIdle ==
    /\ SettingsIdle
    /\ xdata = <<>>
    /\ StoreIdle

(***************************************************************************)
(* Extended data: the payloads of the description and the transparency.    *)
(***************************************************************************)
AcAecLayerStandard == "AcAecLayerStandard"

\* the bit of a stored transparency that marks a real transparency value
RealTransparencyBit == 33554432

\* the stored transparency BYBLOCK
TransparencyByBlock == 16777216

\* group codes of the extended data: a string and a 32-bit integer
XdString == 1000
XdLong == 1071

\* one tag of a payload
Tag(code, value) == [code |-> code, value |-> value]

\* DXFEntity.has_xdata
has_xdata(xd, appid) == appid \in DOMAIN xd

\* DXFEntity.get_xdata: the tags stored for appid, DXFValueError when there
\* are none (has_xdata tells)
get_xdata(xd, appid) == xd[appid]

\* DXFEntity.discard_xdata
discard_xdata(xd, appid) == [a \in DOMAIN xd \ {appid} |-> xd[a]]

\* DXFEntity.set_xdata
set_xdata(xd, appid, tags) ==
    [a \in DOMAIN xd \cup {appid} |-> IF a = appid THEN tags ELSE xd[a]]

\* colors.float2transparency: int((1.0 - value) * 255) | 0x02000000
float2transparency(value) ==
    BitOr((FloatOne - value) \div 2, RealTransparencyBit)

\* Layer.transparency (property), line 290: xdata[0] of a payload without
\* a tag raises IndexError
transparency_raises ==
    has_xdata(xdata, AcCmTransparency)
    /\ Len(get_xdata(xdata, AcCmTransparency)) = 0

\* a description setter that keeps the tags stored before
set_description_append(xd, value) ==
    set_xdata(xd, AcAecLayerStandard,
              (IF has_xdata(xd, AcAecLayerStandard)
               THEN get_xdata(xd, AcAecLayerStandard) ELSE <<>>)
              \o <<Tag(XdString, ""), Tag(XdString, value)>>)

\* Layer.description (setter), lines 280-281
set_description(xd, value) ==
    set_xdata(discard_xdata(xd, AcAecLayerStandard), AcAecLayerStandard,
              <<Tag(XdString, ""), Tag(XdString, value)>>)

\* Layer.description (property)
layer_description ==
    IF ~has_xdata(xdata, AcAecLayerStandard) THEN ""
    ELSE LET xd == get_xdata(xdata, AcAecLayerStandard)
         IN IF Len(xd) > 1 THEN xd[2].value ELSE ""

\* the values the transparency setter is called with
LayerTransparencyArgs == {-1, 0, 255, FloatOne, FloatOne + 1}

\* the values the description setter is called with
DescriptionArgs == {"", "walls"}

\* Layer.transparency (setter)
SetTransparency ==
    \E value \in LayerTransparencyArgs :
        /\ appids' = appids \cup {AcCmTransparency}
        /\ xdata' =
             IF 0 <= value /\ value <= FloatOne
             THEN set_xdata(discard_xdata(xdata, AcCmTransparency),
                            AcCmTransparency,
                            <<Tag(XdLong, float2transparency(value))>>)
             ELSE xdata
        /\ lres' = IF 0 <= value /\ value <= FloatOne THEN "ok" ELSE "ValueError"
        /\ larg' = <<value>>
        /\ op' = "set_transparency"
        /\ UNCHANGED <<true_color, linetype, lineweight, overrides, xdict, ovh,
                       ovarg, ovres>>
        /\ UNCHANGED <<layerVars, renameVars, exVars>>

\* Layer.transparency (property)
GetTransparency ==
    /\ lres' = IF transparency_raises THEN "IndexError" ELSE "ok"
    /\ larg' = None
    /\ op' = "get_transparency"
    /\ UNCHANGED appids
    /\ UNCHANGED <<layerVars, renameVars, ovVars, exVars>>

\* Layer.description (setter)
SetDescription ==
    \E value \in DescriptionArgs :
        /\ appids' = appids \cup {AcAecLayerStandard}
        /\ xdata' = set_description(xdata, value)
        /\ lres' = "ok"
        /\ larg' = <<value>>
        /\ op' = "set_description"
        /\ UNCHANGED <<true_color, linetype, lineweight, overrides, xdict, ovh,
                       ovarg, ovres>>
        /\ UNCHANGED <<layerVars, renameVars, exVars>>

\* Layer.description (property)
GetDescription ==
    /\ lres' = "ok"
    /\ larg' = None
    /\ op' = "get_description"
    /\ UNCHANGED appids
    /\ UNCHANGED <<layerVars, renameVars, ovVars, exVars>>

\* no property of the layer was accessed yet
XdIdle ==
    /\ appids = {}
    /\ larg = None
    /\ lres = "ok"

(***************************************************************************)
(* Layer.export_entity: the tags of a layer, written to a tagwriter.       *)
(***************************************************************************)
\* the DXF versions "AC1009", "AC1015", "AC1018", "AC1021" and "AC1032" by
\* their numbers: the strings compare as the numbers do
DXF12 == 1009
DXF2000 == 1015
DXF2004 == 1018
DXF2007 == 1021
DXF2018 == 1032

\* the versions a document is exported at
ExportVersions == {DXF12, DXF2000, DXF2004, DXF2007, DXF2018}

\* group code of a subclass marker
SUBCLASS_MARKER == 100

\* acdb_layer_table_record: group code, first version, optional flag and
\* presence of a default of every attribute
DXFAttr(code, version, optional, has_default) ==
    [code |-> code, dxfversion |-> version, optional |-> optional,
     has_default |-> has_default]

acdb_layer_table_record ==
    [name |-> DXFAttr(2, DXF12, FALSE, FALSE),
     flags |-> DXFAttr(70, DXF12, FALSE, TRUE),
     color |-> DXFAttr(62, DXF12, FALSE, TRUE),
     true_color |-> DXFAttr(420, DXF2004, TRUE, FALSE),
     linetype |-> DXFAttr(6, DXF12, FALSE, TRUE),
     plot |-> DXFAttr(290, DXF2000, TRUE, TRUE),
     lineweight |-> DXFAttr(370, DXF2000, FALSE, TRUE),
     plotstyle_handle |-> DXFAttr(390, DXF2000, FALSE, FALSE),
     material_handle |-> DXFAttr(347, DXF2007, FALSE, FALSE),
     unknown1 |-> DXFAttr(348, DXF2007, TRUE, FALSE)]

\* lines 146-157: the names export_entity hands to export_dxf_attribs
ExportNames ==
    <<"name", "flags", "color", "true_color", "linetype", "plot",
      "lineweight", "plotstyle_handle", "material_handle", "unknown1">>

\* the tag of a subclass marker
MarkerTag(subclass) == [code |-> SUBCLASS_MARKER, value |-> subclass]

\* the tag of an attribute; its value is written as the attribute's name
AttribTag(name) == [code |-> acdb_layer_table_record[name].code, value |-> name]

\* DXFEntity.export_entity: the structure tag, the handle and, above DXF12,
\* the owner
base_class_tags(version) ==
    <<[code |-> 0, value |-> "LAYER"], [code |-> 5, value |-> "handle"]>>
    \o (IF version > DXF12 THEN <<[code |-> 330, value |-> "owner"]>> ELSE <<>>)

\* DXFNamespace.export_dxf_attribs writes the attribute name at this version
\* when these attributes are set
is_exported(name, version, set) ==
    LET attrib == acdb_layer_table_record[name]
    IN /\ version >= attrib.dxfversion
       /\ \/ name \in set
          \/ ~attrib.optional /\ attrib.has_default

\* DXFNamespace.export_dxf_attribs
export_dxf_attribs(names, version, set) ==
    LET written == SelectSeq(names, LAMBDA n : is_exported(n, version, set))
    IN [i \in 1..Len(written) |-> AttribTag(written[i])]

\* line 139: super().export_entity(tagwriter)
ExportBase ==
    /\ epc = "idle"
    /\ stream' = base_class_tags(dxfversion)
    /\ epc' = "markers"
    /\ op' = "export_entity"
    /\ UNCHANGED <<dxfversion, attribs, handles>>
    /\ UNCHANGED <<layerVars, renameVars, ovVars, xdVars>>

\* an export that writes the markers at every version
ExportMarkersAlways ==
    /\ epc = "markers"
    /\ stream' = stream \o <<MarkerTag("AcDbSymbolTableRecord"),
                              MarkerTag("AcDbLayerTableRecord")>>
    /\ epc' = "attribs"
    /\ UNCHANGED <<dxfversion, attribs, handles, op>>
    /\ UNCHANGED <<layerVars, renameVars, ovVars, xdVars>>

\* lines 140-142: the two subclass markers
ExportMarkers ==
    /\ epc = "markers"
    /\ stream' = IF dxfversion > DXF12
                 THEN stream \o <<MarkerTag("AcDbSymbolTableRecord"),
                                  MarkerTag("AcDbLayerTableRecord")>>
                 ELSE stream
    /\ epc' = "attribs"
    /\ UNCHANGED <<dxfversion, attribs, handles, op>>
    /\ UNCHANGED <<layerVars, renameVars, ovVars, xdVars>>

\* lines 144-158: self.dxf.export_dxf_attribs, and the return
ExportAttribs ==
    /\ epc = "attribs"
    /\ stream' = stream \o export_dxf_attribs(ExportNames, dxfversion, attribs)
    /\ epc' = "done"
    /\ UNCHANGED <<dxfversion, attribs, handles, op>>
    /\ UNCHANGED <<layerVars, renameVars, ovVars, xdVars>>

\* the two handle attributes set_required_attributes looks after
HandleAttribs == {"material_handle", "plotstyle_handle"}

\* the handle attributes of a layer whose set attributes are set, each with
\* the handle h
HandlesOf(set, h) ==
    [n \in HandleAttribs |-> IF n \in set THEN <<h>> ELSE <<>>]

\* no export yet, of a new layer: DEFAULT_ATTRIBS sets its name
ExIdle ==
    /\ dxfversion = DXF12
    /\ attribs = {"name"}
    /\ handles = HandlesOf(attribs, "A1")
    /\ stream = <<>>
    /\ epc = "idle"

(***************************************************************************)
(* The fixers of the layer schema; SpecColorFixer and SpecLineweightFixer: *)
(* a fixer applied to the value of a color tag, of a lineweight tag.       *)
(***************************************************************************)
\* validator.fix_lineweight: a valid value as it is, a value below the
\* sentinels the default, a value above the widest the widest, any other
\* the next wider enumerated width
fix_lineweight(lw) ==
    LET widest == CHOOSE w \in VALID_DXF_LINEWEIGHTS :
                      \A v \in VALID_DXF_LINEWEIGHTS : v <= w
    IN IF is_valid_lineweight(lw) THEN lw
       ELSE IF lw < LINEWEIGHT_DEFAULT THEN LINEWEIGHT_DEFAULT
       ELSE IF lw > widest THEN widest
       ELSE CHOOSE w \in VALID_DXF_LINEWEIGHTS :
                /\ w > lw
                /\ \A v \in VALID_DXF_LINEWEIGHTS : v > lw => w <= v

\* a fixer without the branch for the two sentinels
fix_layer_lineweight_raw(lw) == fix_lineweight(lw)

fix_layer_lineweight(lw) ==
    IF lw \in {LINEWEIGHT_BYLAYER, LINEWEIGHT_BYBLOCK} THEN LINEWEIGHT_DEFAULT
    ELSE fix_lineweight(lw)

\* fix_layer_color is called with the value of a color tag
FixLayerColor ==
    \E aci \in -MaxColorArg..MaxColorArg :
        /\ color' = fix_layer_color(aci)
        /\ larg' = <<aci>>
        /\ lres' = "ok"
        /\ op' = "fix_layer_color"
        /\ UNCHANGED <<flags, setm, appids>>
        /\ UNCHANGED <<renameVars, ovVars, exVars>>

\* fix_layer_lineweight is called with the value of a lineweight tag
FixLayerLineweight ==
    \E lw \in -MaxLwArg..MaxLwArg :
        /\ lineweight' = fix_layer_lineweight(lw)
        /\ larg' = <<lw>>
        /\ lres' = "ok"
        /\ op' = "fix_layer_lineweight"
        /\ UNCHANGED <<true_color, linetype, xdata, overrides, xdict, ovh,
                       ovarg, ovres, appids>>
        /\ UNCHANGED <<layerVars, renameVars, exVars>>

InitRepair ==
    /\ color = DefaultAci
    /\ flags = 0
    /\ setm = 0
    /\ op = "init"
    /\ lname = [L1 |-> NmA, L0 |-> Nm0]
    /\ table = TableOf(lname)
    /\ edb = <<>>
    /\ RenameIdle
    /\ OvIdle
    /\ XdIdle
    /\ ExIdle

SpecColorFixer == InitRepair /\ [][FixLayerColor]_vars

SpecLineweightFixer == InitRepair /\ [][FixLayerLineweight]_vars

(***************************************************************************)
(* Layer.set_required_attributes, and SpecRequired: a layer whose handle   *)
(* attributes are set, discarded and filled in.                            *)
(***************************************************************************)
\* DXFNamespace.hasattr
hasattr(set, name) == name \in set

\* doc.materials["Global"], a DXF entity, and doc.plotstyles["Normal"], a
\* handle
MaterialsGlobal == [is_entity |-> TRUE, dxf |-> [handle |-> "M0"]]
PlotstylesNormal == [is_entity |-> FALSE, value |-> "P0"]

\* lines 163-166 and 170-173: the handle of a table entry
handle_of(entry) == IF entry.is_entity THEN entry.dxf.handle ELSE entry.value

\* the handles the owner of a layer assigns
UserHandles == {"A1", "A2", "A3", "A4", "A5", "A6", "A7", "A8"}

\* Layer.set_required_attributes
SetRequiredAttributes ==
    LET no_material == ~hasattr(attribs, "material")
        no_plotstyle == ~hasattr(attribs, "plotstyle_handle")
    IN /\ handles' =
            [material_handle |->
                 IF no_material THEN <<handle_of(MaterialsGlobal)>>
                 ELSE handles.material_handle,
             plotstyle_handle |->
                 IF no_plotstyle THEN <<handle_of(PlotstylesNormal)>>
                 ELSE handles.plotstyle_handle]
       /\ attribs' = attribs
                     \cup (IF no_material THEN {"material_handle"} ELSE {})
                     \cup (IF no_plotstyle THEN {"plotstyle_handle"} ELSE {})
       /\ op' = "set_required_attributes"
       /\ UNCHANGED <<dxfversion, stream, epc>>
       /\ UNCHANGED <<layerVars, renameVars, ovVars, xdVars>>

\* layer.dxf.material_handle = h or layer.dxf.plotstyle_handle = h
SetHandle ==
    \E n \in HandleAttribs, h \in UserHandles :
        /\ handles' = [handles EXCEPT ![n] = <<h>>]
        /\ attribs' = attribs \cup {n}
        /\ op' = "set_handle"
        /\ UNCHANGED <<dxfversion, stream, epc>>
        /\ UNCHANGED <<layerVars, renameVars, ovVars, xdVars>>

\* layer.dxf.discard of a handle attribute
DiscardHandle ==
    \E n \in HandleAttribs :
        /\ handles' = [handles EXCEPT ![n] = None]
        /\ attribs' = attribs \ {n}
        /\ op' = "discard_handle"
        /\ UNCHANGED <<dxfversion, stream, epc>>
        /\ UNCHANGED <<layerVars, renameVars, ovVars, xdVars>>

InitRequired ==
    /\ color = DefaultAci
    /\ flags = 0
    /\ setm = 0
    /\ op = "init"
    /\ lname = [L1 |-> NmA, L0 |-> Nm0]
    /\ table = TableOf(lname)
    /\ edb = <<>>
    /\ RenameIdle
    /\ OvIdle
    /\ XdIdle
    /\ dxfversion = DXF12
    /\ attribs \in {{"name"} \cup set : set \in SUBSET HandleAttribs}
    /\ handles = HandlesOf(attribs, "A1")
    /\ stream = <<>>
    /\ epc = "idle"

NextRequired == SetRequiredAttributes \/ SetHandle \/ DiscardHandle

SpecRequired == InitRequired /\ [][NextRequired]_vars

(***************************************************************************)
(* SpecExport: a layer with its name and any other attributes set,         *)
(* exported at any version.                                                *)
(***************************************************************************)
InitExport ==
    /\ color = DefaultAci
    /\ flags = 0
    /\ setm = 0
    /\ op = "init"
    /\ lname = [L1 |-> NmA, L0 |-> Nm0]
    /\ table = TableOf(lname)
    /\ edb = <<>>
    /\ RenameIdle
    /\ OvIdle
    /\ XdIdle
    /\ dxfversion \in ExportVersions
    /\ attribs \in {{"name"} \cup set :
                       set \in SUBSET (DOMAIN acdb_layer_table_record)}
    /\ handles = HandlesOf(attribs, "A1")
    /\ stream = <<>>
    /\ epc = "idle"

NextExport == ExportBase \/ ExportMarkers \/ ExportAttribs

SpecExport == InitExport /\ [][NextExport]_vars

(***************************************************************************)
(* SpecXdata: a layer with any payloads of the two application ids, under  *)
(* the description and transparency properties and set_color.              *)
(***************************************************************************)
\* the signed 32-bit values a transparency payload is loaded with: without,
\* with the BYBLOCK and with the real-value bit, the largest, and negative
\* ones with and without the real-value bit
StoredTransparencies ==
    {0, 255, TransparencyByBlock, TransparencyByBlock + 128,
     RealTransparencyBit, RealTransparencyBit + 127, RealTransparencyBit + 255,
     RealTransparencyBit + TransparencyByBlock + 10, 2147483647, -1,
     -RealTransparencyBit - 1}

\* the payloads of AcCmTransparency: none, one without a tag, one value
TransparencyPayloads ==
    {<<>>, << <<>> >>} \cup {<< <<Tag(XdLong, t)>> >> : t \in StoredTransparencies}

\* the payloads of AcAecLayerStandard: none, and zero to three strings
DescriptionPayloads ==
    {<<>>, << <<>> >>, << <<Tag(XdString, "")>> >>,
     << <<Tag(XdString, ""), Tag(XdString, "old")>> >>,
     << <<Tag(XdString, "x"), Tag(XdString, "old"), Tag(XdString, "more")>> >>}

\* the extended data with the payloads tp and dp, each <<>> when there is
\* none and <<payload>> else
XDataOf(tp, dp) ==
    [a \in (IF tp = <<>> THEN {} ELSE {AcCmTransparency})
           \cup (IF dp = <<>> THEN {} ELSE {AcAecLayerStandard}) |->
        IF a = AcCmTransparency THEN tp[1] ELSE dp[1]]

\* the arguments set_color is called with
LayerColorArgs == {0, 3, 256}

InitXdata ==
    /\ color = DefaultAci
    /\ flags = 0
    /\ setm = 0
    /\ op = "init"
    /\ lname = [L1 |-> NmA, L0 |-> Nm0]
    /\ table = TableOf(lname)
    /\ edb = <<>>
    /\ RenameIdle
    /\ SettingsIdle
    /\ StoreIdle
    /\ xdata \in {XDataOf(tp, dp) :
                     tp \in TransparencyPayloads, dp \in DescriptionPayloads}
    /\ appids = DOMAIN xdata
    /\ larg = None
    /\ lres = "ok"
    /\ ExIdle

NextXdata ==
    \/ SetTransparency \/ GetTransparency \/ SetDescription \/ GetDescription
    \/ SetColorWith(LayerColorArgs)

SpecXdata == InitXdata /\ [][NextXdata]_vars

(***************************************************************************)
(* SpecOverrides: layer "A", one VIEWPORT, and an override store of the    *)
(* layer; the layer's color and the viewport's frozen list change too.     *)
(***************************************************************************)
InitOverrides ==
    /\ color = DefaultAci
    /\ flags = 0
    /\ setm = 0
    /\ op = "init"
    /\ lname = [L1 |-> NmA, L0 |-> Nm0]
    /\ table = TableOf(lname)
    /\ edb = <<Entity("VIEWPORT", FALSE, Nm0, <<>>)>>
    /\ RenameIdle
    /\ OvIdle
    /\ XdIdle
    /\ ExIdle

NextOverrides ==
    \/ OvSetColor \/ OvSetRgb \/ OvSetTransparency \/ OvSetLinetype
    \/ OvSetLineweight \/ OvFreeze \/ OvThaw \/ OvRead \/ OvCommit \/ OvNew
    \/ VpSetFrozen \/ SetColorWith({1, DefaultAci}) \/ On \/ Off

SpecOverrides == InitOverrides /\ [][NextOverrides]_vars

(***************************************************************************)
(* SpecRename: a document with the layer "A" and one protected layer, and  *)
(* an entity database of NumEntities entities, under Layer.rename.         *)
(***************************************************************************)
InitRename ==
    /\ color = DefaultAci
    /\ flags = 0
    /\ setm = 0
    /\ op = "init"
    /\ lname \in {[L1 |-> NmA, L0 |-> p] : p \in {Nm0, NmDefpoints}}
    /\ table = TableOf(lname)
    /\ edb \in [1..NumEntities -> EntityChoices]
    /\ RenameIdle
    /\ OvIdle
    /\ XdIdle
    /\ ExIdle

NextRename == RenameCall \/ RenameSetName \/ RenameReplace \/ RenameRefs

SpecRename == InitRename /\ [][NextRename]_vars

(***************************************************************************)
(* SpecColor: a loaded layer (its color passed the schema's validator)     *)
(* under set_color, on and off.                                            *)
(***************************************************************************)
InitColor ==
    /\ color \in {c \in -AciLimit..AciLimit : is_valid_layer_color_index(c)}
    /\ flags = 0
    /\ setm = 0
    /\ op = "init"
    /\ lname = [L1 |-> NmA, L0 |-> Nm0]
    /\ table = TableOf(lname)
    /\ edb = <<>>
    /\ RenameIdle
    /\ OvIdle
    /\ XdIdle
    /\ ExIdle

NextColor == On \/ Off \/ SetColor

SpecColor == InitColor /\ [][NextColor]_vars

(***************************************************************************)
(* SpecFlags: a layer with any flags value under freeze/thaw/lock/unlock.  *)
(***************************************************************************)
InitFlags ==
    /\ color = DefaultAci
    /\ flags \in 0..MaxFlags
    /\ setm = 0
    /\ op = "init"
    /\ lname = [L1 |-> NmA, L0 |-> Nm0]
    /\ table = TableOf(lname)
    /\ edb = <<>>
    /\ RenameIdle
    /\ OvIdle
    /\ XdIdle
    /\ ExIdle

NextFlags == Freeze \/ Thaw \/ Lock \/ Unlock

SpecFlags == InitFlags /\ [][NextFlags]_vars

(***************************************************************************)
(* C1: after set_color(m) with m in 1..255 and any number of on()/off()    *)
(* calls, get_color() is m; on() and off() keep the magnitude of the       *)
(* stored color.                                                           *)
(***************************************************************************)
C1_MagnitudeKept ==
    /\ [](setm # 0 => get_color(color) = setm)
    /\ [][op' \in {"on", "off"} => Abs(color') = Abs(color)]_vars

C1_Witness == setm = 200 /\ op = "off" /\ color = -200

(***************************************************************************)
(* C2: set_color(c) keeps the visibility, whatever the integer c.          *)
(***************************************************************************)
C2_SetColorKeepsVisibility ==
    [][op' = "set_color" => (is_on(color') <=> is_on(color))]_vars

(***************************************************************************)
(* C3: freeze/thaw change only bit 0 and lock/unlock only bit 2 of flags,  *)
(* every other bit (bits above bit 7 included) keeps its value, and        *)
(* is_frozen/is_locked reflect the last call aimed at their bit.           *)
(***************************************************************************)
\* f without bit 0 and bit 2
OtherBits(f) == f - BitAnd(f, FROZEN) - BitAnd(f, LOCK)

C3_OnlyOwnBit ==
    /\ [][OtherBits(flags') = OtherBits(flags)]_vars
    /\ [][op' \in {"freeze", "thaw"} => is_locked(flags') = is_locked(flags)]_vars
    /\ [][op' \in {"lock", "unlock"} => is_frozen(flags') = is_frozen(flags)]_vars
    /\ [](op = "freeze" => is_frozen(flags))
    /\ [](op = "thaw" => ~is_frozen(flags))
    /\ [](op = "lock" => is_locked(flags))
    /\ [](op = "unlock" => ~is_locked(flags))

(***************************************************************************)
(* Vocabulary of the rename claims.                                        *)
(***************************************************************************)
\* the last rename call returned normally
Renamed == pc = "idle" /\ result = "ok"

\* the last rename call raised
RenameErrors == {"invalid_name", "protected", "exists"}

\* the entities of db whose layer attribute is name, letter case ignored
Refs(db, name) ==
    {i \in DOMAIN db : db[i].has_layer /\ Lower(db[i].layer) = Lower(name)}

\* the entities of db whose layer attribute is name
ExactRefs(db, name) == {i \in DOMAIN db : db[i].has_layer /\ db[i].layer = name}

\* entity i has the layer attribute it had when rename was called
SameLayerAttr(i) ==
    /\ edb[i].has_layer = pre.edb[i].has_layer
    /\ edb[i].layer = pre.edb[i].layer

\* a record other than the renamed one held the new name, letter case
\* ignored, when rename was called
CollidesWithOther ==
    \E l \in DOMAIN pre.lname :
        l # rn.layer /\ Lower(pre.lname[l]) = Lower(rn.new)

(***************************************************************************)
(* C4 as stated: after rename(A, B) succeeds no entity references A in any *)
(* letter case, exactly the k entities that referenced A have the layer    *)
(* attribute B, and every other entity keeps its layer attribute.          *)
(***************************************************************************)
C4_ExactlyTheReferrers ==
    Renamed =>
        /\ Refs(edb, rn.old) = {}
        /\ ExactRefs(edb, rn.new) = Refs(pre.edb, rn.old)
        /\ \A i \in DOMAIN edb \ Refs(pre.edb, rn.old) : SameLayerAttr(i)

(***************************************************************************)
(* C4 amended: after rename(A, B) succeeds no entity references A in any   *)
(* letter case, the entities with the layer attribute B are the k entities *)
(* that referenced A together with those that had the layer attribute B    *)
(* before, and every other entity keeps its layer attribute.               *)
(***************************************************************************)
C4_RenameCompleteness ==
    Renamed =>
        /\ Refs(edb, rn.old) = {}
        /\ ExactRefs(edb, rn.new) =
               Refs(pre.edb, rn.old) \cup ExactRefs(pre.edb, rn.new)
        /\ \A i \in DOMAIN edb \ Refs(pre.edb, rn.old) : SameLayerAttr(i)

C4_Witness ==
    /\ Renamed
    /\ rn.old = NmA
    /\ rn.new = NmB
    /\ Cardinality(Refs(pre.edb, NmA)) = 2
    /\ ExactRefs(pre.edb, NmA) # {}
    /\ ExactRefs(pre.edb, Nma) # {}
    /\ ExactRefs(edb, NmB) = Refs(pre.edb, NmA)

(***************************************************************************)
(* C5: rename raises when the layer's name is "0" or "DEFPOINTS" in any    *)
(* letter case, when the new name holds an illegal character, or when the  *)
(* new name is, letter case ignored, the name of another layer; a rename   *)
(* that raised left every layer's name, the layer table and the entities   *)
(* as they were.                                                           *)
(***************************************************************************)
C5_RenameRejection ==
    /\ ( /\ rn # NoRename
         /\ \/ Lower(rn.old) \in {Nm0, Nmdefpoints}
            \/ \E i \in DOMAIN rn.new : rn.new[i] \in INVALID_NAME_CHARACTERS
            \/ CollidesWithOther )
       => result \in RenameErrors
    /\ result \in RenameErrors =>
        /\ pc = "idle"
        /\ lname = pre.lname
        /\ table = pre.table
        /\ edb = pre.edb

C5_Witness ==
    /\ result = "protected"
    /\ rn.old = NmDefpoints
    /\ rn.new = NmB
    /\ \E i \in DOMAIN edb : edb[i].has_layer

(***************************************************************************)
(* C6: rename raises for a name collision exactly when the new name is,    *)
(* letter case ignored, the name of a layer other than the renamed one; a  *)
(* legal new name for a layer that is not protected and that matches no    *)
(* other layer's name is accepted.                                         *)
(***************************************************************************)
C6_CollisionOnlyWithOther ==
    ( /\ rn # NoRename
      /\ is_valid_layer_name(rn.new)
      /\ Lower(rn.old) \notin {Nm0, Nmdefpoints} )
    => (result = "exists" <=> CollidesWithOther)

(***************************************************************************)
(* C7: from the accepted call to the key swap the table resolves only the  *)
(* old name to the renamed layer, from the swap on only the new name, and  *)
(* the layer's name is the new name once rename returned.                  *)
(***************************************************************************)
C7_OneKeyAtATime ==
    /\ pc \in {"set_name", "replace"} =>
        /\ resolves(table, rn.old, rn.layer)
        /\ ~resolves(table, rn.new, rn.layer)
    /\ (pc = "refs" \/ Renamed) =>
        /\ resolves(table, rn.new, rn.layer)
        /\ ~resolves(table, rn.old, rn.layer)
    /\ Renamed => lname[rn.layer] = rn.new

C7_Witness ==
    /\ pc = "refs"
    /\ rn.old = NmA
    /\ rn.new = NmB
    /\ DOMAIN table = {Nmb, Nm0}

(***************************************************************************)
(* C8: a rename over an entity database that holds LAYER_FILTER and        *)
(* LAYER_INDEX entities returns normally, with every matching layer        *)
(* attribute rewritten, also behind those entities, and with one call of   *)
(* the rename hook, with the old and the new name, per VIEWPORT.           *)
(***************************************************************************)
\* the calls of the rename hook on entity i
HookCalls(i) == {j \in DOMAIN hookLog : hookLog[j].handle = i}

C8_ScanGoesOn ==
    /\ Renamed =>
        /\ \A i \in Refs(pre.edb, rn.old) :
               edb[i].has_layer /\ edb[i].layer = rn.new
        /\ \A i \in DOMAIN edb :
               IF edb[i].type = "VIEWPORT"
               THEN /\ Cardinality(HookCalls(i)) = 1
                    /\ \A j \in HookCalls(i) :
                           hookLog[j].old = rn.old /\ hookLog[j].new = rn.new
               ELSE HookCalls(i) = {}

C8_Witness ==
    /\ Renamed
    /\ rn.old = NmA
    /\ edb[1].type = "LAYER_FILTER"
    /\ edb[2].type = "LAYER_INDEX"
    /\ edb[3].type = "VIEWPORT"
    /\ 3 \in Refs(pre.edb, NmA)
    /\ edb[3].layer = rn.new

(***************************************************************************)
(* C9: for a viewport handle without an entry in the store, is_frozen is   *)
(* the membership, now, of the layer's name in the frozen-layer list of    *)
(* that viewport, and get_color is the color, now, of the layer; so a      *)
(* change of the list or of the layer's color shows in the next read.      *)
(***************************************************************************)
\* the names in the frozen-layer list of the viewport with this handle; no
\* name when no entity has the handle
FrozenNames(vp_handle) ==
    IF vp_handle \in DOMAIN edb
    THEN {edb[vp_handle].frozen_layers[i] :
              i \in DOMAIN edb[vp_handle].frozen_layers}
    ELSE {}

C9_DefaultsAreLive ==
    \A h \in VpHandles :
        ~has_overrides(overrides, h) =>
            /\ ov_is_frozen(overrides, h) <=> lname.L1 \in FrozenNames(h)
            /\ ov_get_color(overrides, h) = Abs(color)

C9_Witness ==
    /\ op = "ov_read"
    /\ ovh = 1
    /\ ~has_overrides(overrides, 1)
    /\ color = -1
    /\ edb[1].frozen_layers = <<NmA>>
    /\ ov_is_frozen(overrides, 1)
    /\ ov_get_color(overrides, 1) = 1

(***************************************************************************)
(* C10: no call of set_color, set_rgb, set_transparency, set_linetype,     *)
(* set_lineweight, freeze or thaw on a store, and no read of it, changes   *)
(* what a newly constructed store over the same layer observes.            *)
(***************************************************************************)
\* what a store constructed now reports for every handle
FreshObservation ==
    LET ov == load_layer_overrides(xdict)
    IN [h \in VpHandles |->
            [has |-> has_overrides(ov, h), settings |-> get_overrides(ov, h)]]

OvSessionOps ==
    {"ov_set_color", "ov_set_rgb", "ov_set_transparency", "ov_set_linetype",
     "ov_set_lineweight", "ov_freeze", "ov_thaw", "ov_read"}

C10_CommitAtomicity ==
    [][op' \in OvSessionOps => FreshObservation' = FreshObservation]_vars

C10_Witness ==
    /\ op = "ov_set_color"
    /\ ovres = "ok"
    /\ has_overrides(overrides, 1)
    /\ overrides[1].aci = 3
    /\ overrides[1].frozen
    /\ overrides[1].rgb = <<1, 2, 3>>
    /\ ~FreshObservation[1].has
    /\ FreshObservation[1].settings.aci = 7
    /\ ~FreshObservation[1].settings.frozen

(***************************************************************************)
(* C11: commit() persists the whole override map as one snapshot: a store  *)
(* constructed over the same layer after commit() holds exactly the        *)
(* entries, handles and values, the committing store held at the commit.   *)
(***************************************************************************)
C11_CommitSnapshot ==
    [][op' = "ov_commit" => load_layer_overrides(xdict') = overrides']_vars

(***************************************************************************)
(* C12: a setter of the store called with an invalid argument (a color     *)
(* index whose magnitude is not in 1..255, an RGB tuple with a component   *)
(* outside 0..255, a transparency outside [0, 1], a linetype without a     *)
(* table entry, a lineweight that is not an enumerated width or the        *)
(* default) raises and leaves the store unchanged: no entry is created     *)
(* for a handle that had none.                                             *)
(***************************************************************************)
\* the last store operation was a setter and its argument was invalid
InvalidOvCall ==
    \/ /\ op = "ov_set_color"
       /\ Abs(ovarg[1]) \notin 1..(AciLimit - 1)
    \/ /\ op = "ov_set_rgb"
       /\ ovarg[1] # None
       /\ \E i \in DOMAIN ovarg[1] : ovarg[1][i] \notin 0..255
    \/ /\ op = "ov_set_transparency"
       /\ (ovarg[1] < 0 \/ ovarg[1] > FloatOne)
    \/ /\ op = "ov_set_linetype"
       /\ Lower(ovarg[1]) \notin {Lower(NmContinuous), Lower(NmDASHED)}
    \/ /\ op = "ov_set_lineweight"
       /\ ovarg[1] \notin VALID_DXF_LINEWEIGHTS \cup {LINEWEIGHT_DEFAULT}

C12_SettersValidateFirst ==
    [][InvalidOvCall' => ovres' = "ValueError" /\ overrides' = overrides]_vars

C12_Witness ==
    /\ op = "ov_set_lineweight"
    /\ ovarg = <<LINEWEIGHT_BYLAYER>>
    /\ ovres = "ValueError"
    /\ ovh = 1
    /\ ~has_overrides(overrides, 1)

(***************************************************************************)
(* C13: set_color with a color index whose magnitude is not in 1..255, and *)
(* the transparency setter with a value outside [0, 1], raise and leave    *)
(* the layer's attributes, its extended data and the application-id table  *)
(* as they were.                                                           *)
(***************************************************************************)
\* the last call was a setter of the layer with an invalid value
InvalidLayerCall ==
    \/ op = "set_color" /\ setm = 0
    \/ op = "set_transparency" /\ (larg[1] < 0 \/ larg[1] > FloatOne)

C13_InvalidSetterNoMutation ==
    [][InvalidLayerCall' =>
          /\ lres' = "ValueError"
          /\ color' = color
          /\ flags' = flags
          /\ xdata' = xdata
          /\ appids' = appids]_vars

(***************************************************************************)
(* C14: reading Layer.transparency does not raise and gives 0.0 when the   *)
(* payload is absent, when the stored value lacks the real-value bit       *)
(* 0x02000000, whatever its low-order bits, and when it is the BYBLOCK     *)
(* pattern 0x01000000; a stored value with the bit gives 1 - low byte/255. *)
(* A payload without any tag holds no stored value and is none of these    *)
(* cases.                                                                  *)
(***************************************************************************)
\* the payload of AcCmTransparency holds a value
HasStoredTransparency ==
    has_xdata(xdata, AcCmTransparency) /\ Len(xdata[AcCmTransparency]) >= 1

\* the value the payload of AcCmTransparency holds
StoredTransparency == xdata[AcCmTransparency][1].value

\* bit 25 of t is set
HasRealBit(t) == (t \div RealTransparencyBit) % 2 = 1

C15_DescriptionRoundTrip ==
    /\ ( \/ ~has_xdata(xdata, AcAecLayerStandard)
         \/ Len(xdata[AcAecLayerStandard]) < 2 )
       => layer_description = ""
    /\ op = "get_description" => lres = "ok"
    /\ op = "set_description" =>
           /\ lres = "ok"
           /\ has_xdata(xdata, AcAecLayerStandard)
           /\ xdata[AcAecLayerStandard] =
                  <<[code |-> XdString, value |-> ""],
                    [code |-> XdString, value |-> larg[1]]>>
           /\ layer_description = larg[1]

C15_Witness ==
    /\ op = "set_description"
    /\ larg = <<"walls">>
    /\ Len(xdata[AcAecLayerStandard]) = 2
    /\ layer_description = "walls"
    /\ AcAecLayerStandard \in appids

(***************************************************************************)
(* C16: for every integer v, fix_layer_color(v) is a valid layer color; it *)
(* is v when v is non-zero and strictly between -256 and 256, and 7 for    *)
(* every other v, 0 and the BYLAYER value 256 included.                    *)
(***************************************************************************)
C16_ColorFixer ==
    op = "fix_layer_color" =>
        /\ color # 0 /\ -256 < color /\ color < 256
        /\ is_valid_layer_color_index(color)
        /\ IF larg[1] # 0 /\ -256 < larg[1] /\ larg[1] < 256
           THEN color = larg[1]
           ELSE color = 7

C16_Witness ==
    /\ op = "fix_layer_color"
    /\ larg = <<256>>
    /\ color = 7

(***************************************************************************)
(* C17: for every integer lw, fix_layer_lineweight(lw) is an enumerated    *)
(* width or the default, never BYLAYER or BYBLOCK; the two sentinels are   *)
(* repaired to the default; an invalid lw, also one below the sentinels,   *)
(* is never returned as it is.                                             *)
(***************************************************************************)
C17_LineweightFixer ==
    op = "fix_layer_lineweight" =>
        /\ lineweight \in VALID_DXF_LINEWEIGHTS \cup {LINEWEIGHT_DEFAULT}
        /\ lineweight \notin {LINEWEIGHT_BYLAYER, LINEWEIGHT_BYBLOCK}
        /\ is_valid_layer_lineweight(lineweight)
        /\ larg[1] \in {LINEWEIGHT_BYLAYER, LINEWEIGHT_BYBLOCK}
               => lineweight = LINEWEIGHT_DEFAULT
        /\ larg[1] \notin VALID_DXF_LINEWEIGHTS \cup {LINEWEIGHT_DEFAULT}
               => lineweight # larg[1]
        /\ larg[1] \in VALID_DXF_LINEWEIGHTS \cup {LINEWEIGHT_DEFAULT}
               => lineweight = larg[1]

C17_Witness ==
    /\ op = "fix_layer_lineweight"
    /\ larg = <<LINEWEIGHT_BYBLOCK>>
    /\ lineweight = LINEWEIGHT_DEFAULT

(***************************************************************************)
(* C18: in the tags of an exported layer, at a version newer than DXF12    *)
(* the two subclass markers, AcDbSymbolTableRecord then                    *)
(* AcDbLayerTableRecord, come after the tags of the base class and before  *)
(* every attribute tag; at DXF12 no subclass marker is written; at every   *)
(* version the attribute tags come in the order name, flags, color,        *)
(* true_color, linetype, plot, lineweight, plotstyle_handle,               *)
(* material_handle, unknown1.                                              *)
(***************************************************************************)
\* the place of an attribute's group code in the fixed order
ExportRank(code) ==
    CASE code = 2 -> 1 [] code = 70 -> 2 [] code = 62 -> 3 [] code = 420 -> 4
      [] code = 6 -> 5 [] code = 290 -> 6 [] code = 370 -> 7 [] code = 390 -> 8
      [] code = 347 -> 9 [] code = 348 -> 10 [] OTHER -> 0

\* the positions of the stream that hold a base class tag, a subclass
\* marker, an attribute tag
BasePositions == {i \in DOMAIN stream : stream[i].code \in {0, 5, 330}}
MarkerPositions == {i \in DOMAIN stream : stream[i].code = 100}
AttribPositions == {i \in DOMAIN stream : ExportRank(stream[i].code) > 0}

C18_ExportOrder ==
    /\ epc \in {"attribs", "done"} =>
        IF dxfversion > DXF12
        THEN \E m \in DOMAIN stream :
                /\ MarkerPositions = {m, m + 1}
                /\ stream[m].value = "AcDbSymbolTableRecord"
                /\ stream[m + 1].value = "AcDbLayerTableRecord"
                /\ \A b \in BasePositions : b < m
                /\ \A a \in AttribPositions : a > m + 1
        ELSE MarkerPositions = {}
    /\ epc = "done" =>
        /\ BasePositions # {}
        /\ \A b \in BasePositions, a \in AttribPositions : b < a
        /\ \A i, j \in AttribPositions :
               i < j => ExportRank(stream[i].code) < ExportRank(stream[j].code)
        /\ \E a \in AttribPositions : stream[a].code = 2
    /\ epc \in {"idle", "markers"} => MarkerPositions = {} /\ AttribPositions = {}

C18_Witness ==
    /\ epc = "done"
    /\ dxfversion = DXF2007
    /\ Cardinality(AttribPositions) = 10
    /\ Cardinality(MarkerPositions) = 2

(***************************************************************************)
(* Vocabulary of the lifecycle claims of the override store.               *)
(***************************************************************************)
\* the operations of a store that write: the setters, freeze and thaw
OvWriteOps ==
    {"ov_set_color", "ov_set_rgb", "ov_set_transparency", "ov_set_linetype",
     "ov_set_lineweight", "ov_freeze", "ov_thaw"}

\* the entry of handle h was made by this step and holds, in the fields
\* the step did not write, the layer's settings and the viewport's frozen
\* flag as they are now
SeededEntry(h) ==
    /\ op' # "ov_set_color" => overrides'[h].aci = Abs(color)
    /\ op' # "ov_set_linetype" => overrides'[h].linetype = linetype
    /\ op' # "ov_set_lineweight" => overrides'[h].lineweight = lineweight
    /\ op' \notin {"ov_freeze", "ov_thaw"} =>
           (overrides'[h].frozen <=> lname.L1 \in FrozenNames(h))

(***************************************************************************)
(* C19 as stated: the first access to a handle, a read or a write,         *)
(* materializes an entry seeded from the layer's settings and the          *)
(* viewport's frozen flag, so that has_overrides(handle) is true           *)
(* afterwards; no operation of the store removes an entry.                 *)
(***************************************************************************)
C19_FirstAccessMaterializes ==
    [][/\ (op' \in OvWriteOps \cup {"ov_read"} /\ ovres' = "ok") =>
              /\ has_overrides(overrides', ovh')
              /\ ~has_overrides(overrides, ovh') => SeededEntry(ovh')
       /\ op' \in OvWriteOps \cup {"ov_read", "ov_commit"} =>
              DOMAIN overrides \subseteq DOMAIN overrides']_vars

(***************************************************************************)
(* C19 amended: the first write to a handle materializes an entry seeded   *)
(* from the layer's settings and the viewport's frozen flag, so that       *)
(* has_overrides(handle) is true afterwards; a read of a handle without an *)
(* entry gives these defaults and materializes nothing; no operation of    *)
(* the store removes an entry.                                             *)
(***************************************************************************)
C19_WriteMaterializes ==
    [][/\ (op' \in OvWriteOps /\ ovres' = "ok") =>
              /\ has_overrides(overrides', ovh')
              /\ ~has_overrides(overrides, ovh') => SeededEntry(ovh')
       /\ op' = "ov_read" =>
              /\ overrides' = overrides
              /\ ~has_overrides(overrides, ovh') =>
                     /\ ov_get_color(overrides', ovh') = Abs(color)
                     /\ ov_is_frozen(overrides', ovh')
                            <=> lname.L1 \in FrozenNames(ovh')
       /\ op' \in OvWriteOps \cup {"ov_read", "ov_commit"} =>
              DOMAIN overrides \subseteq DOMAIN overrides']_vars

C19_Witness ==
    /\ op = "ov_thaw"
    /\ ovh = 1
    /\ color = -1
    /\ edb[1].frozen_layers = <<NmA>>
    /\ has_overrides(overrides, 1)
    /\ overrides[1].aci = 1
    /\ ~overrides[1].frozen
    /\ ~has_overrides(overrides, 2)

(***************************************************************************)
(* C20: with a layer color of magnitude 1..255, after any operations of    *)
(* the store get_color(handle) is a color index in 1..255 for every        *)
(* handle: never zero and never negative.                                  *)
(***************************************************************************)
C20_OverrideColorRange ==
    Abs(color) \in 1..255 =>
        \A h \in VpHandles : ov_get_color(overrides, h) \in 1..255

(***************************************************************************)
(* C21: set_required_attributes fills in missing handles only: a           *)
(* material_handle or plotstyle_handle that was set keeps its value, one   *)
(* that was not set becomes the handle of the "Global" material, of the    *)
(* "Normal" plot style; a second call changes nothing.                     *)
(***************************************************************************)
C21_OnlyMissingHandles ==
    [][op' = "set_required_attributes" =>
          /\ \A n \in HandleAttribs :
                 handles[n] # None => handles'[n] = handles[n]
          /\ handles.material_handle = None =>
                 handles'.material_handle = <<"M0">>
          /\ handles.plotstyle_handle = None =>
                 handles'.plotstyle_handle = <<"P0">>
          /\ op = "set_required_attributes" => handles' = handles]_vars
====
